---- MODULE Spec2Model ----
(***************************************************************************)
(* Passkey.h: three macros, PK_BEGIN / PK_ALLOW / PK_END, that expand to a  *)
(* class with private constructors, a deleted assignment operator and a    *)
(* list of friend declarations.                                            *)
(*                                                                         *)
(* The model is the translation unit a user of the header writes, one line *)
(* at a time: forward declarations and definitions of user types, the      *)
(* three macros, and the use sites (constructing a passkey, copying it,    *)
(* assigning it, handing a reference over, calling a locked function).     *)
(* A line the compiler rejects leaves the translation unit as it was and   *)
(* is recorded in `last` with res = "error"; an accepted line is recorded  *)
(* with res = "ok" together with its effect.  Use sites are ordinary       *)
(* member code of the user types and name top-level passkeys; the only     *)
(* cast they contain is the one that forges a `const P&` for a call (the   *)
(* line is recorded as "call_forged").  As the header asks, nothing but    *)
(* the three macros is written between a PK_BEGIN and its PK_END.          *)
(***************************************************************************)
EXTENDS Naturals, Sequences, FiniteSets

VARIABLES
    typeState,  \* user type -> "undeclared" | "declared" | "defined"
    cls,        \* qualified passkey name -> the class PK_BEGIN expanded to
    open,       \* the passkey classes whose body is open, outermost first
    refs,       \* user type -> the passkey objects its code holds a reference to
    heap,       \* the program's observable run-time state (one bit)
    last        \* the line last submitted and the compiler's verdict on it

vars == <<typeState, cls, open, refs, heap, last>>

(* ------------------------------ bounds --------------------------------- *)

\* Number of passkey classes one translation unit declares.
MaxDecls == 2

\* Number of references to passkey objects alive in the program.
MaxRefs == 3

\* Identifiers handed to PK_BEGIN.
Names == {"P", "Q"}

\* User types at namespace scope (the identifiers handed to PK_ALLOW), and
\* one class nested in a user type.
TopTypes == {"A", "B"}
NestedTypes == {"A::N"}
Types == TopTypes \cup NestedTypes

\* The namespace-scope class a user type is lexically part of.
Outer(t) == IF t = "A::N" THEN "A" ELSE t

\* Qualified names: P, Q, P::Q, Q::P, P::Q::P ...  A nested class cannot
\* carry the name of the class it is declared in.
Paths ==
    { p \in UNION { [1..n -> Names] : n \in 1..MaxDecls } :
        \A i \in 1..(Len(p) - 1) : p[i] # p[i + 1] }

NoPath == << >>
NoType == "-"
NoObj == [cls |-> NoPath, maker |-> NoType]

(* ------------------------- macro expansions ---------------------------- *)

\* Mutants of PK_BEGIN: `public:` where the macro says `private:`, the copy
\* constructor deleted like the assignment operator, the assignment operator
\* private like the constructors.
PasskeyClass_PublicCtor ==
    [ ctor |-> "public", copy |-> "public", assign |-> "deleted",
      data |-> {}, friends |-> {}, complete |-> FALSE ]

PasskeyClass_DeletedCopy ==
    [ ctor |-> "private", copy |-> "deleted", assign |-> "deleted",
      data |-> {}, friends |-> {}, complete |-> FALSE ]

PasskeyClass_PrivateAssign ==
    [ ctor |-> "private", copy |-> "private", assign |-> "private",
      data |-> {}, friends |-> {}, complete |-> FALSE ]

\* PK_BEGIN: `class _PasskeyName { private: ctor {} copy-ctor {} operator= = delete;`
\* with no data member, no friend yet and the closing brace still missing.
PasskeyClass ==
    [ ctor     |-> "private",
      copy     |-> "private",
      assign   |-> "deleted",
      data     |-> {},
      friends  |-> {},
      complete |-> FALSE ]

\* Mutant: a constructor body that touches program state.
CtorBody_Counts(h) == 1 - h

\* The body of both constructors: intentionally blank.
CtorBody(h) == h

\* Mutant: PK_ALLOW expanding to the forward declaration `class _ClassName;`
\* instead of a friend declaration.
AddFriend_ForwardDeclaresOnly(c, t) == c

\* PK_ALLOW: `friend _ClassName;` appended to the class body.
AddFriend(c, t) == [c EXCEPT !.friends = @ \cup {t}]

\* Mutant: PK_END without the closing brace.
CloseClass_NoBrace(c) == c

\* PK_END: `};` closes the class body.
CloseClass(c) == [c EXCEPT !.complete = TRUE]

(* ------------------------- C++ rules relied on ------------------------- *)

\* Mutant: a friend declaration that needs the definition of T.
FriendNameKnown_NeedsDefinition(t) == typeState[t] = "defined"

\* `friend T;` needs T to be declared; a forward declaration is enough.
FriendNameKnown(t) == typeState[t] # "undeclared"

\* PK_ALLOW is a member declaration: it needs an open class body.
AllowInClass == open # NoPath

\* PK_END closes the innermost open class body.
EndInClass == open # NoPath

\* PK_BEGIN opens a class at namespace scope or nested in the open class.
\* The class must not be defined already, and a nested class cannot have
\* the name of its enclosing class.
BeginAccepted(n) ==
    /\ (open # NoPath => open[Len(open)] # n)
    /\ Append(open, n) \notin DOMAIN cls

\* Mutant: one friend list shared by every passkey of the translation unit.
IsFriend_SharedList(t, c) ==
    Outer(t) \in c.friends \cup UNION { cls[p].friends : p \in DOMAIN cls }

\* Friendship of a class extends to the classes nested in it.
IsFriend(t, c) == Outer(t) \in c.friends

\* Access to a special member: private members are for friends, deleted
\* ones for nobody.
Accessible(t, c, member) ==
    \/ c[member] = "public"
    \/ c[member] = "private" /\ IsFriend(t, c)

IsComplete(p) == p \in DOMAIN cls /\ cls[p].complete

\* Code of a type exists once the type is defined; use sites are written
\* at namespace scope, outside any passkey declaration.
HasCode(t) == typeState[Outer(t)] = "defined" /\ open = NoPath

\* What a locked function's own body does to the program state.
LockedBody(h) == 1 - h

\* A passkey object, known by its class and by the type whose code built it.
Obj(p, t) == [cls |-> p, maker |-> t]

Held == { <<t, o>> \in Types \X UNION { refs[u] : u \in Types } : o \in refs[t] }

\* Room for the reference <<t, o>>.
Room(t, o) == o \in refs[t] \/ Cardinality(Held) < MaxRefs

Line(op, who, what, key, res) ==
    [op |-> op, who |-> who, what |-> what, key |-> key, res |-> res]

Verdict(accepted) == IF accepted THEN "ok" ELSE "error"

\* The shape of the state.
TypeOK ==
    /\ typeState \in [TopTypes -> {"undeclared", "declared", "defined"}]
    /\ DOMAIN cls \subseteq Paths
    /\ \A p \in DOMAIN cls :
          /\ cls[p].ctor = "private" /\ cls[p].copy = "private"
          /\ cls[p].assign = "deleted"
          /\ cls[p].friends \subseteq TopTypes
          /\ cls[p].complete \in BOOLEAN
    /\ open \in Paths \cup {NoPath}
    /\ \A t \in Types : \A o \in refs[t] : o.cls \in Paths /\ o.maker \in Types
    /\ Cardinality(Held) <= MaxRefs
    /\ heap \in {0, 1}
    /\ last.res \in {"ok", "error"}

(* ------------------------------- Init ---------------------------------- *)

Init ==
    /\ typeState = [t \in TopTypes |-> "undeclared"]
    /\ cls = << >>
    /\ open = NoPath
    /\ refs = [t \in Types |-> {}]
    /\ heap = 0
    /\ last = Line("none", NoType, NoPath, NoObj, "ok")

(* ----------------------- user type declarations ------------------------ *)

\* `class T;` at namespace scope.  Declaring a known type again is accepted
\* and changes nothing.
DeclareType(t) ==
    /\ open = NoPath
    /\ typeState' = IF typeState[t] = "undeclared"
                    THEN [typeState EXCEPT ![t] = "declared"]
                    ELSE typeState
    /\ last' = Line("declare", t, NoPath, NoObj, "ok")
    /\ UNCHANGED <<cls, open, refs, heap>>

\* `class T { ... class N { ... }; };` at namespace scope.  A second
\* definition of T is a redefinition error.
DefineType(t) ==
    /\ open = NoPath
    /\ IF typeState[t] # "defined"
       THEN /\ typeState' = [typeState EXCEPT ![t] = "defined"]
            /\ last' = Line("define", t, NoPath, NoObj, "ok")
       ELSE /\ typeState' = typeState
            /\ last' = Line("define", t, NoPath, NoObj, "error")
    /\ UNCHANGED <<cls, open, refs, heap>>

(* ------------------------------ macros --------------------------------- *)

PK_BEGIN(n) ==
    LET p == Append(open, n) IN
    /\ Cardinality(DOMAIN cls) < MaxDecls \/ ~BeginAccepted(n)
    /\ IF BeginAccepted(n)
       THEN /\ cls' = [q \in DOMAIN cls \cup {p} |->
                          IF q = p THEN PasskeyClass ELSE cls[q]]
            /\ open' = p
            /\ last' = Line("PK_BEGIN", NoType, p, NoObj, "ok")
       ELSE /\ UNCHANGED <<cls, open>>
            /\ last' = Line("PK_BEGIN", NoType, p, NoObj, "error")
    /\ UNCHANGED <<typeState, refs, heap>>

PK_ALLOW(t) ==
    /\ IF AllowInClass /\ FriendNameKnown(t)
       THEN /\ cls' = [cls EXCEPT ![open] = AddFriend(@, t)]
            /\ last' = Line("PK_ALLOW", t, open, NoObj, "ok")
       ELSE /\ cls' = cls
            /\ last' = Line("PK_ALLOW", t, open, NoObj, "error")
    /\ UNCHANGED <<typeState, open, refs, heap>>

PK_END ==
    /\ IF EndInClass
       THEN /\ cls' = [cls EXCEPT ![open] = CloseClass(@)]
            /\ open' = SubSeq(open, 1, Len(open) - 1)
            /\ last' = Line("PK_END", NoType, open, NoObj, "ok")
       ELSE /\ UNCHANGED <<cls, open>>
            /\ last' = Line("PK_END", NoType, open, NoObj, "error")
    /\ UNCHANGED <<typeState, refs, heap>>

(* ----------------------------- use sites -------------------------------- *)

\* `P p;` in member code of t.
Construct(t, n) ==
    LET p  == <<n>>
        ok == IsComplete(p) /\ Accessible(t, cls[p], "ctor") IN
    /\ HasCode(t)
    /\ ok => Room(t, Obj(p, t))
    /\ refs' = IF ok THEN [refs EXCEPT ![t] = @ \cup {Obj(p, t)}] ELSE refs
    /\ heap' = IF ok THEN CtorBody(heap) ELSE heap
    /\ last' = Line("construct", t, p, NoObj, Verdict(ok))
    /\ UNCHANGED <<typeState, cls, open>>

\* `P q(o);` in member code of t, o being a passkey object t has a reference to.
Copy(t, o) ==
    LET ok == Accessible(t, cls[o.cls], "copy") IN
    /\ HasCode(t)
    /\ o \in refs[t]
    /\ ok => Room(t, Obj(o.cls, t))
    /\ refs' = IF ok THEN [refs EXCEPT ![t] = @ \cup {Obj(o.cls, t)}] ELSE refs
    /\ heap' = IF ok THEN CtorBody(heap) ELSE heap
    /\ last' = Line("copy", t, o.cls, o, Verdict(ok))
    /\ UNCHANGED <<typeState, cls, open>>

\* `o = o2;` in member code of t.  The class has no data member, so an
\* accepted assignment would copy nothing.
Assign(t, o, o2) ==
    LET ok == Accessible(t, cls[o.cls], "assign") IN
    /\ HasCode(t)
    /\ o \in refs[t] /\ o2 \in refs[t] /\ o.cls = o2.cls
    /\ last' = Line("assign", t, o.cls, o2, Verdict(ok))
    /\ UNCHANGED <<typeState, cls, open, refs, heap>>

\* Code of t exposes a reference to o (a getter returning `const P&`), and
\* code of u takes it.  The hand-offs enumerated are those between the types
\* at namespace scope.
HandOff(t, u, o) ==
    /\ HasCode(t) /\ HasCode(u) /\ t # u
    /\ o \in refs[t]
    /\ Room(u, o)
    /\ refs' = [refs EXCEPT ![u] = @ \cup {o}]
    /\ last' = Line("handoff", u, o.cls, o, "ok")
    /\ UNCHANGED <<typeState, cls, open, heap>>

\* `obj->MyLockedFunction(0, P());` in member code of t: the passkey is a
\* temporary built at the call site.
CallInline(t, n) ==
    LET p  == <<n>>
        ok == IsComplete(p) /\ Accessible(t, cls[p], "ctor") IN
    /\ HasCode(t)
    /\ heap' = IF ok THEN LockedBody(CtorBody(heap)) ELSE heap
    /\ last' = Line("call_inline", t, p, Obj(p, t), Verdict(ok))
    /\ UNCHANGED <<typeState, cls, open, refs>>

\* `obj->MyLockedFunction(0, o);` in member code of t, for the function
\* locked with passkey n.  Binding `const P&` needs no constructor: o is a
\* passkey object of that class t has a reference to, or no passkey object
\* at all, the reference being forged with a cast
\* (`reinterpret_cast<const P&>(c)`), which every type can write as soon as
\* the passkey is forward-declared for the locked function's declaration.
CallRef(t, n, o) ==
    /\ HasCode(t)
    /\ o = NoObj \/ (o \in refs[t] /\ o.cls = <<n>>)
    /\ heap' = LockedBody(heap)
    /\ last' = Line(IF o = NoObj THEN "call_forged" ELSE "call_ref", t, <<n>>, o, "ok")
    /\ UNCHANGED <<typeState, cls, open, refs>>

Next ==
    \/ \E t \in TopTypes : DeclareType(t)
    \/ \E t \in TopTypes : DefineType(t)
    \/ \E n \in Names : PK_BEGIN(n)
    \/ \E t \in TopTypes : PK_ALLOW(t)
    \/ PK_END
    \/ \E t \in Types, n \in Names : Construct(t, n)
    \/ \E t \in Types : \E o \in refs[t] : Copy(t, o)
    \/ \E t \in Types : \E o, o2 \in refs[t] : Assign(t, o, o2)
    \/ \E t, u \in TopTypes : \E o \in refs[t] : HandOff(t, u, o)
    \/ \E t \in Types, n \in Names : CallInline(t, n)
    \/ \E t \in Types, n \in Names : \E o \in refs[t] \cup {NoObj} : CallRef(t, n, o)

Spec == Init /\ [][Next]_vars

(* ------------------------------ claims --------------------------------- *)

\* The passkey class the last line was about, once it is complete.
Target == cls[last.what]
OnTarget == last.what \in DOMAIN cls /\ Target.complete

\* The types PK_ALLOW named for a class, and the types whose code can open it.
Allowed(c) == c.friends
Openers(c) == { t \in Types : Outer(t) \in c.friends }

Completed == { p \in DOMAIN cls : cls[p].complete }

IsPrefix(p, q) == Len(p) <= Len(q) /\ SubSeq(q, 1, Len(p)) = p

\* C1 as stated: code of a type C default-constructs a complete passkey P if
\* and only if C is one of the types named in a PK_ALLOW of P.
C1_NamedTypesOnly ==
    (last.op \in {"construct", "call_inline"} /\ OnTarget)
        => (last.res = "ok" <=> last.who \in Allowed(Target))

\* C1 amended: code of a type C default-constructs a complete passkey P if
\* and only if C is named in a PK_ALLOW of P or is a class nested in a type
\* that is; every other attempt is rejected.
C1_ConstructIffOpener ==
    (last.op \in {"construct", "call_inline"} /\ OnTarget)
        => (last.res = "ok" <=> last.who \in Openers(Target))

\* A class nested in an allowed type built a passkey it is not named for,
\* while the allow-list is not everybody.
C1_Witness ==
    /\ last.op = "construct" /\ last.res = "ok" /\ OnTarget
    /\ last.who \notin Allowed(Target)
    /\ Allowed(Target) # TopTypes

\* C2 as stated, for the types at namespace scope: every accepted call of a
\* function locked with P is made by code of a type named in a PK_ALLOW of
\* P, also when the caller uses a reference to a passkey object that an
\* allowed type constructed and exposed.
C2_CallersAreAllowed ==
    (last.op \in {"call_inline", "call_ref"} /\ last.res = "ok" /\ last.who \in TopTypes)
        => last.who \in Allowed(Target)

\* C2 amended: every accepted call of a function locked with P passes a
\* passkey object of class P that code of an opener of P built (a type
\* named in a PK_ALLOW of P, or a class nested in one); a caller that is no
\* opener of P gets in only with a reference to such an object that was
\* handed to it, never with a passkey it built.
C2_KeyBuiltByOpener ==
    (last.op \in {"call_inline", "call_ref"} /\ last.res = "ok")
        => /\ OnTarget
           /\ last.key.cls = last.what
           /\ last.key.maker \in Openers(Target)
           /\ last.who \notin Openers(Target)
                 => /\ last.op = "call_ref"
                    /\ last.key \in refs[last.who]
                    /\ last.key.maker # last.who

\* A type outside the allow-list called the locked function with a reference
\* it was handed.
C2_Witness ==
    /\ last.op = "call_ref" /\ last.res = "ok"
    /\ last.who \notin Openers(Target)
    /\ last.key.maker \in Allowed(Target)

\* C3 as stated: a copy-construction of a passkey is rejected whatever the
\* type whose code attempts it, on the allow-list or not.
C3_NobodyCopies ==
    last.op = "copy" => last.res = "error"

\* C3 amended: a copy-construction of a passkey is rejected for every type
\* that is no opener of the passkey, and accepted for the openers (the copy
\* constructor is private, not deleted).
C3_CopyIffOpener ==
    last.op = "copy"
        => /\ OnTarget
           /\ last.res = "ok" <=> last.who \in Openers(Target)

\* A type outside the allow-list tried to copy a passkey it was handed.
C3_Witness ==
    /\ last.op = "copy" /\ last.res = "error"
    /\ last.who \notin Openers(Target)
    /\ last.key \in refs[last.who]

\* C4: a copy-assignment between passkey objects is rejected whatever the
\* type whose code attempts it, the types on the allow-list included.
C4_NobodyAssigns ==
    last.op = "assign" => last.res = "error"

\* A type on the allow-list tried to assign one passkey to another.
C4_Witness ==
    /\ last.op = "assign" /\ last.res = "error"
    /\ last.who \in Allowed(Target)

\* The types whose code the compiler lets default-construct passkey p.
AbleToOpen(p) == { t \in Types : Accessible(t, cls[p], "ctor") }

\* C5 as stated: once PK_END has committed a passkey, the set of types able
\* to open it is exactly the set of names given to its PK_ALLOWs.
C5_OpenersAreTheNamedTypes ==
    \A p \in Completed : AbleToOpen(p) = Allowed(cls[p])

\* C5 amended: a declared passkey never disappears; its allow-list starts
\* empty at PK_BEGIN and changes only by an accepted PK_ALLOW(T) inside its
\* open declaration, each of which adds exactly T; once PK_END has closed it
\* no line (a later PK_ALLOW included) changes the class or the set of types
\* able to open it; and that set is the named types together with the
\* classes nested in them, not the named types alone.
C5_Step ==
    /\ \A p \in DOMAIN cls :
          /\ p \in DOMAIN cls'
          /\ cls[p].complete
                => /\ cls'[p] = cls[p]
                   /\ AbleToOpen(p)' = AbleToOpen(p)
          /\ cls'[p].friends # cls[p].friends
                => /\ p = open
                   /\ last'.op = "PK_ALLOW" /\ last'.res = "ok"
    /\ (last'.op = "PK_ALLOW" /\ last'.res = "ok")
          => /\ open \in DOMAIN cls
             /\ cls'[open].friends = cls[open].friends \cup {last'.who}
    /\ \A p \in DOMAIN cls' \ DOMAIN cls :
          /\ cls'[p].friends = {}
          /\ last'.op = "PK_BEGIN"

C5_AllowListFixed ==
    /\ [](\A p \in Completed : AbleToOpen(p) = Openers(cls[p]))
    /\ [][C5_Step]_vars

\* A PK_ALLOW of a declared type, not on the list, was issued after PK_END.
C5_Witness ==
    /\ last.op = "PK_ALLOW" /\ last.res = "error"
    /\ open = NoPath
    /\ typeState[last.who] # "undeclared"
    /\ \E p \in Completed : last.who \notin cls[p].friends /\ cls[p].friends # {}

\* C6: PK_ALLOW(T) inside an open declaration is accepted when T is only
\* forward-declared, and puts T on the allow-list; when such a T is defined
\* later, its code exists and has access to the constructor of every
\* complete passkey that allowed it.
C6_Step ==
    /\ (last'.op = "PK_ALLOW" /\ AllowInClass /\ typeState[last'.who] = "declared")
          => /\ last'.res = "ok"
             /\ last'.who \in cls'[open].friends
    /\ \A t \in TopTypes :
          (typeState[t] = "declared" /\ typeState'[t] = "defined")
             => \A p \in Completed :
                   t \in cls[p].friends
                      => /\ HasCode(t)'
                         /\ p \in DOMAIN cls'
                         /\ Accessible(t, cls'[p], "ctor")

C6_ForwardDeclaredFriend == [][C6_Step]_vars

\* A type on the allow-list of a complete passkey has just been defined: it
\* was allowed while it was only forward-declared.
C6_Witness ==
    /\ last.op = "define" /\ last.res = "ok"
    /\ \E p \in Completed : Len(p) = 1 /\ last.who \in cls[p].friends

\* C7: a passkey class has no data member; an accepted default or copy
\* construction leaves the program state as it was, a rejected line too, and
\* an accepted call of a locked function changes it by what the function's
\* body does and nothing else.
C7_Step ==
    /\ last'.op \in {"construct", "copy", "assign", "handoff"} => heap' = heap
    /\ last'.res = "error" => heap' = heap
    /\ (last'.op \in {"call_inline", "call_ref", "call_forged"} /\ last'.res = "ok")
          => heap' = LockedBody(heap)

C7_NoRuntimeEffect ==
    /\ [](\A p \in DOMAIN cls : cls[p].data = {})
    /\ [][C7_Step]_vars

\* A passkey was built inline and passed to a locked function, whose body ran.
C7_Witness ==
    /\ last.op = "call_inline" /\ last.res = "ok"
    /\ heap = 1

\* C8 as stated: the only accepted sequences are PK_BEGIN, PK_ALLOW*, PK_END,
\* so at most one declaration is open at any time.
C8_OneOpenDeclaration ==
    Len(open) <= 1

\* C8 amended: PK_ALLOW and PK_END are accepted only while a PK_BEGIN is
\* open; a PK_BEGIN not yet followed by its PK_END leaves its class
\* incomplete; every accepted PK_END completes exactly one passkey class,
\* the innermost open one, and no other line completes any; but PK_BEGIN is
\* accepted inside an open declaration too, where it declares a nested
\* passkey class.
C8_Step ==
    /\ (last'.op = "PK_ALLOW" /\ last'.res = "ok") => open # NoPath
    /\ (last'.op = "PK_END" /\ last'.res = "ok")
          => /\ open # NoPath
             /\ open \notin Completed
             /\ Completed' = Completed \cup {open}
             /\ open' = SubSeq(open, 1, Len(open) - 1)
    /\ (last'.op = "PK_END" /\ last'.res = "error") => open = NoPath
    /\ last'.op # "PK_END" => Completed' = Completed
    /\ (last'.op = "PK_BEGIN" /\ last'.res = "ok")
          => /\ open' = Append(open, open'[Len(open')])
             /\ open' \notin DOMAIN cls
             /\ open' \notin Completed'

C8_Protocol ==
    /\ [](\A p \in DOMAIN cls : cls[p].complete <=> ~IsPrefix(p, open))
    /\ [][C8_Step]_vars

\* A nested declaration was closed while the enclosing one is still open.
C8_Witness ==
    /\ last.op = "PK_END" /\ last.res = "ok"
    /\ Len(open) = 1
    /\ Completed = {last.what}

\* Another complete top-level passkey that names the type of the last line.
AllowedElsewhere ==
    \E p \in Completed : p # last.what /\ Len(p) = 1 /\ last.who \in Allowed(cls[p])

====
